---------------------------- MODULE Spec2Model ----------------------------
(***************************************************************************)
(* Order delay dashboard (order_dashboard.py): a linear pipeline           *)
(*   load -> normalize headers -> resolve logical fields -> rename ->      *)
(*   coerce -> top-level counts -> filter -> aggregation views.            *)
(* Header strings are sequences of one-character strings so that the       *)
(* normalisation rule (strip, lower, collapse runs outside [a-z0-9]) is    *)
(* computed character by character, as the code computes it.               *)
(***************************************************************************)
EXTENDS Integers, Sequences, FiniteSets, TLC

(***************************************************************************)
(* Characters and the normalisation rule                                   *)
(***************************************************************************)
UpperChars ==
    << "A","B","C","D","E","F","G","H","I","J","K","L","M",
       "N","O","P","Q","R","S","T","U","V","W","X","Y","Z" >>

LowerChars ==
    << "a","b","c","d","e","f","g","h","i","j","k","l","m",
       "n","o","p","q","r","s","t","u","v","w","x","y","z" >>

DigitChars == << "0","1","2","3","4","5","6","7","8","9" >>

Whitespace == { " ", "\t" }

Range(s) == { s[i] : i \in DOMAIN s }

\* the character class [a-z0-9] of the regular expression
AlnumLower == Range(LowerChars) \cup Range(DigitChars)

\* the lower-case letter of every upper-case letter
ToLower == [ c \in Range(UpperChars) |->
               LowerChars[CHOOSE i \in DOMAIN UpperChars : UpperChars[i] = c] ]

\* str.lower() on one character
LowerChar(c) == IF c \in DOMAIN ToLower THEN ToLower[c] ELSE c

lower(s) == [ i \in 1..Len(s) |-> LowerChar(s[i]) ]

RECURSIVE lstrip(_)
lstrip(s) ==
    IF s = << >> THEN s
    ELSE IF Head(s) \in Whitespace THEN lstrip(Tail(s)) ELSE s

RECURSIVE rstrip(_)
rstrip(s) ==
    IF s = << >> THEN s
    ELSE IF s[Len(s)] \in Whitespace THEN rstrip(SubSeq(s, 1, Len(s) - 1)) ELSE s

\* str.strip()
strip(s) == rstrip(lstrip(s))

\* re.sub(r'[^a-z0-9]+', '_', s): every maximal run of characters outside
\* [a-z0-9] becomes one underscore; inRun says the previous character
\* belonged to such a run (whose underscore is already written).
RECURSIVE re_sub_from(_, _, _)
re_sub_from(s, i, inRun) ==
    IF i > Len(s) THEN << >>
    ELSE IF s[i] \in AlnumLower THEN << s[i] >> \o re_sub_from(s, i + 1, FALSE)
    ELSE IF inRun THEN re_sub_from(s, i + 1, TRUE)
    ELSE << "_" >> \o re_sub_from(s, i + 1, TRUE)

re_sub(s) == re_sub_from(s, 1, FALSE)

\* faulty variant of norm: the lower-casing is forgotten
norm_no_lower(c) == re_sub(strip(c))

\* norm = re.sub(r'[^a-z0-9]+', '_', c.strip().lower())
norm(c) == re_sub(lower(strip(c)))

(***************************************************************************)
(* The alias table: logical field -> ordered candidate spellings           *)
(***************************************************************************)
\* the ten logical field names (the keys of `candidates`), as strings
F_order_id == << "o","r","d","e","r","_","i","d" >>
F_order_region == << "o","r","d","e","r","_","r","e","g","i","o","n" >>
F_order_country == << "o","r","d","e","r","_","c","o","u","n","t","r","y" >>
F_shipping_mode == << "s","h","i","p","p","i","n","g","_","m","o","d","e" >>
F_category_name == << "c","a","t","e","g","o","r","y","_","n","a","m","e" >>
F_product_name == << "p","r","o","d","u","c","t","_","n","a","m","e" >>
F_sales == << "s","a","l","e","s" >>
F_profit_per_order == << "p","r","o","f","i","t","_","p","e","r","_","o","r","d","e","r" >>
F_quantity == << "q","u","a","n","t","i","t","y" >>
F_label == << "l","a","b","e","l" >>

\* the keys of `candidates` in the dictionary's insertion order
FieldOrder ==
    << F_order_id, F_order_region, F_order_country, F_shipping_mode,
       F_category_name, F_product_name, F_sales, F_profit_per_order,
       F_quantity, F_label >>

Fields == { FieldOrder[i] : i \in DOMAIN FieldOrder }

candidates ==
       F_order_id :>
         << << "o","r","d","e","r","_","i","d" >>,
            << "o","r","d","e","r"," ","i","d" >>,
            << "o","r","d","e","r","i","d" >> >>
    @@ F_order_region :>
         << << "o","r","d","e","r","_","r","e","g","i","o","n" >>,
            << "o","r","d","e","r"," ","r","e","g","i","o","n" >>,
            << "r","e","g","i","o","n" >> >>
    @@ F_order_country :>
         << << "o","r","d","e","r","_","c","o","u","n","t","r","y" >>,
            << "o","r","d","e","r"," ","c","o","u","n","t","r","y" >>,
            << "c","o","u","n","t","r","y" >> >>
    @@ F_shipping_mode :>
         << << "s","h","i","p","p","i","n","g","_","m","o","d","e" >>,
            << "s","h","i","p","p","i","n","g"," ","m","o","d","e" >>,
            << "s","h","i","p","p","i","n","g","_","m","o","d","e" >>,
            << "s","h","i","p","p","i","n","g","m","o","d","e" >> >>
    @@ F_category_name :>
         << << "c","a","t","e","g","o","r","y","_","n","a","m","e" >>,
            << "c","a","t","e","g","o","r","y"," ","n","a","m","e" >>,
            << "c","a","t","e","g","o","r","y" >> >>
    @@ F_product_name :>
         << << "p","r","o","d","u","c","t","_","n","a","m","e" >>,
            << "p","r","o","d","u","c","t"," ","n","a","m","e" >>,
            << "p","r","o","d","u","c","t" >> >>
    @@ F_sales :>
         << << "s","a","l","e","s" >>,
            << "s","a","l","e","s","_","p","e","r","_","c","u","s","t","o","m","e","r" >>,
            << "s","a","l","e","s","_","p","e","r","_","o","r","d","e","r" >>,
            << "s","a","l","e","s","_","t","o","t","a","l" >> >>
    @@ F_profit_per_order :>
         << << "p","r","o","f","i","t","_","p","e","r","_","o","r","d","e","r" >>,
            << "p","r","o","f","i","t","_","p","e","r","_","o","r","d","e","r" >>,
            << "o","r","d","e","r","_","p","r","o","f","i","t","_","p","e","r","_","o","r","d","e","r" >>,
            << "p","r","o","f","i","t" >> >>
    @@ F_quantity :>
         << << "o","r","d","e","r","_","i","t","e","m","_","q","u","a","n","t","i","t","y" >>,
            << "q","u","a","n","t","i","t","y" >>,
            << "o","r","d","e","r","_","i","t","e","m","_","q","t","y" >>,
            << "q","t","y" >> >>
    @@ F_label :>
         << << "l","a","b","e","l" >>,
            << "o","r","d","e","r","_","s","t","a","t","u","s" >>,
            << "d","e","l","a","y","_","f","l","a","g" >>,
            << "d","e","l","a","y","_","s","t","a","t","u","s" >> >>

\* the fields whose absence stops the run
Critical == { F_label, F_order_region, F_shipping_mode }

(***************************************************************************)
(* Literal headers the loaded file may carry                               *)
(***************************************************************************)
H_label == << "l","a","b","e","l" >>
H_Label == << "L","a","b","e","l" >>
H_OrderRegion == << "O","r","d","e","r"," ","R","e","g","i","o","n" >>
H_order_region == << "o","r","d","e","r","_","r","e","g","i","o","n" >>
H_ORDER_REGION_padded == << " ","O","R","D","E","R","-","-","R","E","G","I","O","N"," " >>
H_OrderRegionDot == << "O","r","d","e","r"," ","R","e","g","i","o","n","." >>
H_Region == << "R","e","g","i","o","n" >>
H_ShippingMode == << "S","h","i","p","p","i","n","g"," ","M","o","d","e" >>
H_OrderCountry == << "O","r","d","e","r"," ","C","o","u","n","t","r","y" >>
H_order_country == << "o","r","d","e","r","_","c","o","u","n","t","r","y" >>
H_OrderItemQuantity == << "O","r","d","e","r"," ","I","t","e","m"," ","Q","u","a","n","t","i","t","y" >>
H_quantity == << "q","u","a","n","t","i","t","y" >>
H_OrderCity == << "O","r","d","e","r"," ","c","i","t","y" >>
H_CustomerCity == << "C","u","s","t","o","m","e","r"," ","c","i","t","y" >>
H_CustomerCountry == << "C","u","s","t","o","m","e","r"," ","C","o","u","n","t","r","y" >>

(***************************************************************************)
(* Column normalizer                                                       *)
(***************************************************************************)
\* found[k] when no candidate of k matches (Python's None); no header is empty
None == << >>

\* faulty variant of mapping_after: an earlier header is not overwritten by a later
\* one with the same key (first-write-wins)
RECURSIVE mapping_first_wins(_, _)
mapping_first_wins(cols, n) ==
    IF n = 0 THEN [ x \in {} |-> None ]
    ELSE LET m == mapping_first_wins(cols, n - 1)
             k == norm(cols[n])
         IN  [ x \in DOMAIN m \cup {k} |-> IF x \in DOMAIN m THEN m[x] ELSE cols[n] ]

\* the dictionary `mapping` after the loop of normalize_cols has seen the
\* first n columns: mapping[norm] = c overwrites an earlier entry
RECURSIVE mapping_after(_, _)
mapping_after(cols, n) ==
    IF n = 0 THEN [ x \in {} |-> None ]
    ELSE LET m == mapping_after(cols, n - 1)
             k == norm(cols[n])
         IN  [ x \in DOMAIN m \cup {k} |-> IF x = k THEN cols[n] ELSE m[x] ]

\* the mapping returned by normalize_cols(df)
normalize_cols(cols) == mapping_after(cols, Len(cols))

\* find_col: the loop over the candidates from position i on
RECURSIVE find_col_from(_, _, _)
find_col_from(mapping, cand_list, i) ==
    IF i > Len(cand_list) THEN None
    ELSE LET cand_norm == norm(cand_list[i])
         IN  IF cand_norm \in DOMAIN mapping THEN mapping[cand_norm]
             ELSE find_col_from(mapping, cand_list, i + 1)

find_col(mapping, cand_list) == find_col_from(mapping, cand_list, 1)

\* faulty variant of missing_critical: the test `k in (...)` is dropped
missing_any(f) == SelectSeq(FieldOrder, LAMBDA k : f[k] = None)

\* missing_critical, in the iteration order of `found`
missing_critical(f) == SelectSeq(FieldOrder, LAMBDA k : f[k] = None /\ k \in Critical)

\* work.rename(columns=rename_map) with rename_map = {found[k]: k ...}; when
\* several fields resolve to one header the last key written wins
rename_target(f, c) ==
    LET ks == { i \in DOMAIN FieldOrder : f[FieldOrder[i]] # None /\ f[FieldOrder[i]] = c }
    IN  IF ks = {} THEN c
        ELSE FieldOrder[CHOOSE i \in ks : \A j \in ks : j <= i]

rename(f, cols) == [ i \in DOMAIN cols |-> rename_target(f, cols[i]) ]

\* the number of columns of the frame that carry the name
Occurrences(cols, name) == Cardinality({ i \in DOMAIN cols : cols[i] = name })

(***************************************************************************)
(* Cells, rows and numeric coercion                                        *)
(***************************************************************************)
\* a numeric cell: a number, or NaN (na = TRUE; NaN equals nothing)
Num(n) == [ na |-> FALSE, v |-> n ]
NaN == [ na |-> TRUE, v |-> 0 ]

\* the element-wise comparison  column == n
CellEq(cell, n) == ~cell.na /\ cell.v = n

IsDigit(c) == c \in Range(DigitChars)
DigitVal(c) == (CHOOSE i \in DOMAIN DigitChars : DigitChars[i] = c) - 1

RECURSIVE DigitsVal(_)
DigitsVal(s) ==
    IF s = << >> THEN 0
    ELSE 10 * DigitsVal(SubSeq(s, 1, Len(s) - 1)) + DigitVal(s[Len(s)])

AllDigits(s) == s # << >> /\ \A i \in DOMAIN s : IsDigit(s[i])

\* faulty variant of to_numeric: what cannot be parsed becomes 0 instead of missing
to_numeric_fill_zero(text) ==
    IF AllDigits(text) THEN Num(DigitsVal(text))
    ELSE IF text # << >> /\ Head(text) = "-" /\ AllDigits(Tail(text))
         THEN Num(0 - DigitsVal(Tail(text)))
    ELSE Num(0)

\* pd.to_numeric(..., errors="coerce") on one cell of text: an optionally
\* signed run of digits is its value, anything else (an empty cell too) is NaN
to_numeric(text) ==
    IF AllDigits(text) THEN Num(DigitsVal(text))
    ELSE IF text # << >> /\ Head(text) = "-" /\ AllDigits(Tail(text))
         THEN Num(0 - DigitsVal(Tail(text)))
    ELSE NaN

\* label cells as the file spells them in the rows drawn below: delayed,
\* early, a number that is no label, and text that is no number
LabelCells == { << "-","1" >>, << "1" >>, << "2" >>, << "b","a","d" >> }

\* group keys in the sorted order in which groupby lists them
RegionOrder == << "East", "West" >>
ShipOrder == << "First Class", "Standard Class" >>
CityOrder == << "Lima", "Pune" >>

Regions == Range(RegionOrder)
ShipModes == Range(ShipOrder)

\* the city the orders of a region leave from, in the rows drawn below
CityOf(region) == IF region = "East" THEN "Pune" ELSE "Lima"

RawRow(region, ship, text) ==
    [ order_region |-> region, shipping_mode |-> ship, label |-> text,
      order_city |-> CityOf(region), order_country |-> "India",
      customer_city |-> "Caguas", customer_country |-> "Puerto Rico" ]

RowPool == { RawRow(r, s, t) : r \in Regions, s \in ShipModes, t \in LabelCells }

(***************************************************************************)
(* Bounds and the inputs drawn within them                                 *)
(***************************************************************************)
MaxHeaders == 4
MaxRows == 2

\* headers from which header lists of up to MaxHeaders columns are drawn
HeaderPool ==
    { H_label, H_Label, H_OrderRegion, H_order_region, H_ORDER_REGION_padded,
      H_OrderRegionDot, H_Region, H_ShippingMode, H_OrderItemQuantity,
      H_quantity }

\* read_csv never yields two equal column names (a repeat is renamed x.1)
Distinct(s) == \A i, j \in DOMAIN s : i # j => s[i] # s[j]

HeaderLists ==
    { s \in UNION { [ 1..n -> HeaderPool ] : n \in 1..MaxHeaders } : Distinct(s) }

\* the header row of the published dataset (the columns the views read), and
\* the same with a second, pre-normalised country column appended
Layout_Dataset ==
    << H_OrderCity, H_OrderCountry, H_CustomerCity, H_CustomerCountry,
       H_OrderRegion, H_ShippingMode, H_label >>

Layout_Twin == Layout_Dataset \o << H_order_country >>

RowLists == UNION { [ 1..n -> RowPool ] : n \in 0..MaxRows }

\* the rows loaded under the header lists drawn from HeaderPool and under
\* Layout_Dataset: one region, one shipping mode, the labels -1, -1, 0, 1,
\* "bad" and a missing one; the row lists of RowLists load under Layout_Twin
SampleLabels ==
    << << "-","1" >>, << "-","1" >>, << "0" >>, << "1" >>, << "b","a","d" >>, << >> >>

SampleRows ==
    [ i \in DOMAIN SampleLabels |-> RawRow("East", "Standard Class", SampleLabels[i]) ]

(***************************************************************************)
(* Filter engine                                                           *)
(***************************************************************************)
\* faulty variant of apply_filters: the `and sel_...` guards are dropped, so an
\* empty selection keeps no row
apply_filters_no_guard(cols, w, regs, ships) ==
    LET f1 == SelectSeq(w, LAMBDA r : r.order_region \in regs)
    IN  SelectSeq(f1, LAMBDA r : r.shipping_mode \in ships)

\* filtered = work.copy(), then one isin() restriction per non-empty selection
apply_filters(cols, w, regs, ships) ==
    LET f1 == IF F_order_region \in Range(cols) /\ regs # {}
              THEN SelectSeq(w, LAMBDA r : r.order_region \in regs)
              ELSE w
    IN  IF F_shipping_mode \in Range(cols) /\ ships # {}
        THEN SelectSeq(f1, LAMBDA r : r.shipping_mode \in ships)
        ELSE f1

(***************************************************************************)
(* Aggregation views                                                       *)
(***************************************************************************)
\* a percentage: a quotient num/den, NaN (0/0), inf (n/0), or the
\* ZeroDivisionError a scalar division would raise
PctNum(n, d) == [ kind |-> "num", num |-> n, den |-> d ]
PctNaN == [ kind |-> "nan", num |-> 0, den |-> 1 ]
PctInf == [ kind |-> "inf", num |-> 1, den |-> 0 ]
PctError == [ kind |-> "error", num |-> 0, den |-> 0 ]

\* faulty variant of delay_pct: the division raises on a zero total
delay_pct_raises(delay, total) ==
    IF total = 0 THEN PctError ELSE PctNum(delay * 100, total)

\* (delay_count / total_count) * 100, element-wise on float columns: a zero
\* total gives NaN or inf and raises nothing
delay_pct(delay, total) ==
    IF total = 0 THEN (IF delay = 0 THEN PctNaN ELSE PctInf)
    ELSE PctNum(delay * 100, total)

\* a > b on percentages that are not NaN
PctGt(a, b) ==
    IF a.kind = "inf" THEN b.kind # "inf"
    ELSE IF b.kind = "inf" THEN FALSE
    ELSE a.num * b.den > b.num * a.den

\* ["label"].count() of a group: the cells that are not missing
CountLabelled(g) == Cardinality({ i \in DOMAIN g : ~g[i].label.na })

\* the count of a group's rows whose label equals n
CountLabel(g, n) == Cardinality({ i \in DOMAIN g : CellEq(g[i].label, n) })

SummaryRow(key, delay, total) ==
    [ key |-> key, delay_count |-> delay, total_count |-> total,
      delay_pct |-> delay_pct(delay, total) ]

\* sort_values("delay_count", ascending=False): x goes behind the rows whose
\* count is not smaller
RECURSIVE insert_by_delay_count(_, _)
insert_by_delay_count(s, x) ==
    IF s = << >> THEN << x >>
    ELSE IF Head(s).delay_count >= x.delay_count
         THEN << Head(s) >> \o insert_by_delay_count(Tail(s), x)
         ELSE << x >> \o s

RECURSIVE sort_by_delay_count(_)
sort_by_delay_count(s) ==
    IF s = << >> THEN << >>
    ELSE insert_by_delay_count(sort_by_delay_count(SubSeq(s, 1, Len(s) - 1)), s[Len(s)])

\* the label value the shipping-mode breakdown counts as a delay
ShipDelayLabel == 1

\* delay_summary_ship: total_by_ship merged with delay_by_ship, fillna(0),
\* the percentage, sorted by delay_count
delay_summary_ship_of(f) ==
    LET keys == SelectSeq(ShipOrder, LAMBDA s : \E i \in DOMAIN f : f[i].shipping_mode = s)
        group(s) == SelectSeq(f, LAMBDA r : r.shipping_mode = s)
        row(s) == SummaryRow(s, CountLabel(group(s), ShipDelayLabel), CountLabelled(group(s)))
    IN  sort_by_delay_count([ i \in DOMAIN keys |-> row(keys[i]) ])

\* delay_summary_ship.loc[delay_summary_ship["delay_count"].idxmax()]: the
\* first row, in the frame's order, with the largest count
worst_of(summary) ==
    LET i == CHOOSE i \in DOMAIN summary :
                 /\ \A j \in DOMAIN summary : summary[j].delay_count <= summary[i].delay_count
                 /\ \A j \in 1..(i - 1) : summary[j].delay_count < summary[i].delay_count
    IN  << summary[i] >>

\* the label value the region breakdown and the routes count as a delay
DelayedLabel == -1

delay_summary_region_of(f) ==
    LET keys == SelectSeq(RegionOrder, LAMBDA g : \E i \in DOMAIN f : f[i].order_region = g)
        group(g) == SelectSeq(f, LAMBDA r : r.order_region = g)
        row(g) == SummaryRow(g, CountLabel(group(g), DelayedLabel), CountLabelled(group(g)))
    IN  sort_by_delay_count([ i \in DOMAIN keys |-> row(keys[i]) ])

\* the columns the routes view looks up, by their literal names
req_cols == << H_OrderCity, H_OrderCountry, H_CustomerCity, H_CustomerCountry, F_label >>

missing_req(cols) == SelectSeq(req_cols, LAMBDA c : c \notin Range(cols))

\* astype(str) + ", " + astype(str)
origin(r) == << r.order_city, ", ", r.order_country >>
destination(r) == << r.customer_city, ", ", r.customer_country >>
route(r) == << origin(r), destination(r) >>

\* the routes of the rows drawn here, in groupby's sorted order
RouteOrder ==
    [ i \in DOMAIN CityOrder |->
        << << CityOrder[i], ", ", "India" >>, << "Caguas", ", ", "Puerto Rico" >> >> ]

route_grp_of(f) ==
    LET keys == SelectSeq(RouteOrder, LAMBDA k : \E i \in DOMAIN f : route(f[i]) = k)
        group(k) == SelectSeq(f, LAMBDA r : route(r) = k)
        row(k) == SummaryRow(k, CountLabel(group(k), DelayedLabel), CountLabelled(group(k)))
    IN  [ i \in DOMAIN keys |-> row(keys[i]) ]

\* nlargest keeps the order of equal values: x goes behind the rows whose
\* percentage is not smaller
RECURSIVE insert_by_pct(_, _)
insert_by_pct(s, x) ==
    IF s = << >> THEN << x >>
    ELSE IF PctGt(x.delay_pct, Head(s).delay_pct) THEN << x >> \o s
         ELSE << Head(s) >> \o insert_by_pct(Tail(s), x)

RECURSIVE sort_by_pct(_)
sort_by_pct(s) ==
    IF s = << >> THEN << >>
    ELSE insert_by_pct(sort_by_pct(SubSeq(s, 1, Len(s) - 1)), s[Len(s)])

TopN == 10

\* route_grp.nlargest(10, "delay_pct"): the largest percentages first, the
\* NaN rows behind them, cut at ten rows
nlargest(n, grp) ==
    LET valued == SelectSeq(grp, LAMBDA g : g.delay_pct.kind # "nan")
        nans == SelectSeq(grp, LAMBDA g : g.delay_pct.kind = "nan")
        all == sort_by_pct(valued) \o nans
    IN  SubSeq(all, 1, IF Len(all) < n THEN Len(all) ELSE n)

\* a division that raised somewhere in the table
Raised(summary) == \E i \in DOMAIN summary : summary[i].delay_pct.kind = "error"

(***************************************************************************)
(* The run of the script                                                   *)
(***************************************************************************)
VARIABLES
    pc,                    \* where the run stands
    headers,               \* list(df.columns)
    rows,                  \* the rows of df
    col_map,               \* the mapping normalized header -> literal header
    found,                 \* logical field -> literal header or None
    diag,                  \* what st.error showed before st.stop()
    columns,               \* work.columns after the renaming
    work,                  \* the rows of work, label coerced
    error,                 \* the exception that ended the run, if any
    kpi,                   \* total_orders, delayed_count, ontime_count, early_count
    sel_regions,           \* the sidebar's region selection
    sel_shipping,          \* the sidebar's shipping-mode selection
    filtered,              \* the rows of filtered
    delay_summary_ship,
    worst,                 \* the highlighted shipping mode (none for an empty table)
    delay_summary_region,
    top10_routes

vars ==
    << pc, headers, rows, col_map, found, diag, columns, work, error, kpi,
       sel_regions, sel_shipping, filtered, delay_summary_ship, worst,
       delay_summary_region, top10_routes >>

NoDiag == [ kind |-> "none", fields |-> << >>, columns |-> << >> ]
NoKpi == [ total |-> 0, delayed |-> 0, ontime |-> 0, early |-> 0 ]

\* df is loaded (line 63 is reached); nothing else is computed yet
Init ==
    /\ \/ headers \in HeaderLists \cup { Layout_Dataset } /\ rows = SampleRows
       \/ headers = Layout_Twin /\ rows \in RowLists
    /\ pc = "loaded"
    /\ col_map = [ x \in {} |-> None ]
    /\ found = [ k \in Fields |-> None ]
    /\ diag = NoDiag
    /\ columns = << >>
    /\ work = << >>
    /\ error = "none"
    /\ kpi = NoKpi
    /\ sel_regions = {}
    /\ sel_shipping = {}
    /\ filtered = << >>
    /\ delay_summary_ship = << >>
    /\ worst = << >>
    /\ delay_summary_region = << >>
    /\ top10_routes = << >>

\* lines 63-82: normalize_cols, then find_col for every logical field
Resolve ==
    /\ pc = "loaded"
    /\ col_map' = normalize_cols(headers)
    /\ found' = [ k \in Fields |-> find_col(col_map', candidates[k]) ]
    /\ pc' = "resolved"
    /\ UNCHANGED << headers, rows, diag, columns, work, error, kpi, sel_regions,
                    sel_shipping, filtered, delay_summary_ship, worst,
                    delay_summary_region, top10_routes >>

\* lines 84-87: a missing critical field stops the run with a diagnostic
StopCritical ==
    /\ pc = "resolved"
    /\ missing_critical(found) # << >>
    /\ diag' = [ kind |-> "critical", fields |-> missing_critical(found),
                 columns |-> headers ]
    /\ pc' = "stopped"
    /\ UNCHANGED << headers, rows, col_map, found, columns, work, error, kpi,
                    sel_regions, sel_shipping, filtered, delay_summary_ship,
                    worst, delay_summary_region, top10_routes >>

\* lines 90-93: work = df.copy() with the resolved headers renamed
Rename ==
    /\ pc = "resolved"
    /\ missing_critical(found) = << >>
    /\ columns' = rename(found, headers)
    /\ pc' = "renamed"
    /\ UNCHANGED << headers, rows, col_map, found, diag, work, error, kpi,
                    sel_regions, sel_shipping, filtered, delay_summary_ship,
                    worst, delay_summary_region, top10_routes >>

\* the numeric columns lines 96-99 coerce
NumericColumns == { F_label, F_sales, F_profit_per_order, F_quantity }

\* lines 96-99: pd.to_numeric on work[col]; with two columns of that name
\* work[col] is a frame and to_numeric raises TypeError
Coerce ==
    /\ pc = "renamed"
    /\ IF \E c \in NumericColumns : Occurrences(columns, c) > 1
       THEN /\ error' = "TypeError"
            /\ pc' = "crashed"
            /\ UNCHANGED work
       ELSE /\ work' = [ i \in DOMAIN rows |->
                           [ rows[i] EXCEPT !.label = to_numeric(rows[i].label) ] ]
            /\ pc' = "coerced"
            /\ UNCHANGED error
    /\ UNCHANGED << headers, rows, col_map, found, diag, columns, kpi,
                    sel_regions, sel_shipping, filtered, delay_summary_ship,
                    worst, delay_summary_region, top10_routes >>

\* lines 107-110: the four top-level counts
TopCounts ==
    /\ pc = "coerced"
    /\ kpi' = [ total |-> Len(work),
                delayed |-> CountLabel(work, -1),
                ontime |-> CountLabel(work, 0),
                early |-> CountLabel(work, 1) ]
    /\ pc' = "counted"
    /\ UNCHANGED << headers, rows, col_map, found, diag, columns, work, error,
                    sel_regions, sel_shipping, filtered, delay_summary_ship,
                    worst, delay_summary_region, top10_routes >>

\* lines 124-133: the selections offered are the observed values; the user
\* keeps any subset of them; with two columns of a filter's name
\* work[col].dropna().unique() raises AttributeError
Filter ==
    /\ pc = "counted"
    /\ IF Occurrences(columns, F_order_region) > 1 \/ Occurrences(columns, F_shipping_mode) > 1
       THEN /\ error' = "AttributeError"
            /\ pc' = "crashed"
            /\ UNCHANGED << sel_regions, sel_shipping, filtered >>
       ELSE /\ sel_regions' \in SUBSET { work[i].order_region : i \in DOMAIN work }
            /\ sel_shipping' \in SUBSET { work[i].shipping_mode : i \in DOMAIN work }
            /\ filtered' = apply_filters(columns, work, sel_regions', sel_shipping')
            /\ pc' = "filtered"
            /\ UNCHANGED error
    /\ UNCHANGED << headers, rows, col_map, found, diag, columns, work, kpi,
                    delay_summary_ship, worst, delay_summary_region, top10_routes >>

\* lines 247-278, the section "Delay analysis: counts and percentages": the
\* delay-by-shipping-mode summary with its worst mode, then the
\* delay-by-region summary
DelayAnalysis ==
    /\ pc = "filtered"
    /\ LET ship == delay_summary_ship_of(filtered)
           region == delay_summary_region_of(filtered)
       IN  IF Raised(ship) \/ Raised(region)
           THEN /\ error' = "ZeroDivisionError"
                /\ pc' = "crashed"
                /\ UNCHANGED << delay_summary_ship, worst, delay_summary_region >>
           ELSE /\ delay_summary_ship' = ship
                /\ worst' = IF ship = << >> THEN << >> ELSE worst_of(ship)
                /\ delay_summary_region' = region
                /\ pc' = "delay_done"
                /\ UNCHANGED error
    /\ UNCHANGED << headers, rows, col_map, found, diag, columns, work, kpi,
                    sel_regions, sel_shipping, filtered, top10_routes >>

\* lines 328-331: the first required column that filtered lacks stops the run
RoutesStop ==
    /\ pc = "delay_done"
    /\ missing_req(columns) # << >>
    /\ diag' = [ kind |-> "route", fields |-> << Head(missing_req(columns)) >>,
                 columns |-> << >> ]
    /\ pc' = "routes_stopped"
    /\ UNCHANGED << headers, rows, col_map, found, columns, work, error, kpi,
                    sel_regions, sel_shipping, filtered, delay_summary_ship,
                    worst, delay_summary_region, top10_routes >>

\* lines 334-360: the route table and its ten largest delay percentages
Routes ==
    /\ pc = "delay_done"
    /\ missing_req(columns) = << >>
    /\ LET grp == route_grp_of(filtered)
       IN  IF Raised(grp)
           THEN /\ error' = "ZeroDivisionError"
                /\ pc' = "crashed"
                /\ UNCHANGED top10_routes
           ELSE /\ top10_routes' = nlargest(TopN, grp)
                /\ pc' = "done"
                /\ UNCHANGED error
    /\ UNCHANGED << headers, rows, col_map, found, diag, columns, work, kpi,
                    sel_regions, sel_shipping, filtered, delay_summary_ship,
                    worst, delay_summary_region >>

Next ==
    \/ Resolve
    \/ StopCritical
    \/ Rename
    \/ Coerce
    \/ TopCounts
    \/ Filter
    \/ DelayAnalysis
    \/ RoutesStop
    \/ Routes

Spec == Init /\ [][Next]_vars

(***************************************************************************)
(* Stages of the run                                                       *)
(***************************************************************************)
AfterFilter == pc \in { "filtered", "delay_done", "routes_stopped", "done" }
AfterDelay == pc \in { "delay_done", "routes_stopped", "done" }
AfterCounts == pc = "counted" \/ AfterFilter \/ (pc = "crashed" /\ error = "AttributeError")
AfterRename == pc \notin { "loaded", "resolved", "stopped" }

\* nothing past the resolution of the fields has been computed
NothingComputed ==
    /\ columns = << >> /\ work = << >> /\ kpi = NoKpi /\ error = "none"
    /\ sel_regions = {} /\ sel_shipping = {} /\ filtered = << >>
    /\ delay_summary_ship = << >> /\ worst = << >>
    /\ delay_summary_region = << >> /\ top10_routes = << >>

\* the normalized form of every candidate, by field and position
candidate_keys ==
    [ k \in Fields |-> [ i \in DOMAIN candidates[k] |-> norm(candidates[k][i]) ] ]

\* the normalized form of every header, by position
header_keys == [ j \in DOMAIN headers |-> norm(headers[j]) ]

\* the keys under which the headers can be looked up
HeaderKeys == Range(header_keys)

\* the last position whose key, in the list keys, is key
Last(keys, key) ==
    CHOOSE j \in DOMAIN keys :
        keys[j] = key /\ \A m \in DOMAIN keys : keys[m] = key => m <= j

\* the critical fields none of whose candidates matches a header
UnresolvedIn(keys) ==
    { k \in Critical : \A i \in DOMAIN candidates[k] : candidate_keys[k][i] \notin keys }

(***************************************************************************)
(* C1: a run whose header list leaves a critical field (label,             *)
(* order_region, shipping_mode) unresolved stops right after the           *)
(* resolution: nothing is renamed, coerced, filtered or aggregated and no  *)
(* step remains; the diagnostic names exactly the unresolved critical      *)
(* fields, each once, and the full header list.  A run in which all three  *)
(* resolve never stops there, whatever optional field is unresolved.       *)
(***************************************************************************)
C1_MissingCriticalStops ==
    /\ pc \in { "resolved", "stopped", "renamed" } =>
          LET unresolved == UnresolvedIn(HeaderKeys)
          IN  /\ pc = "stopped" =>
                    /\ unresolved # {}
                    /\ diag.kind = "critical"
                    /\ Range(diag.fields) = unresolved
                    /\ Len(diag.fields) = Cardinality(unresolved)
                    /\ diag.columns = headers
                    /\ NothingComputed
                    /\ ~ENABLED Next
              /\ pc = "resolved" =>
                    /\ NothingComputed
                    /\ unresolved # {} => (ENABLED StopCritical /\ ~ENABLED Rename)
                    /\ unresolved = {} => (ENABLED Rename /\ ~ENABLED StopCritical)
              /\ pc = "renamed" => unresolved = {}
    /\ pc \notin { "loaded", "resolved", "stopped" } => diag.kind # "critical"

\* the run stopped for the label alone, with order_region resolved and the
\* optional order_country unresolved
C1_Witness ==
    /\ pc = "stopped"
    /\ diag.fields = << F_label >>
    /\ found[F_order_region] # None
    /\ found[F_order_country] = None

(***************************************************************************)
(* C2: once the fields are resolved, the lookup has exactly the normalized *)
(* headers as keys and holds under each key the header that occurs last    *)
(* in the header list with that key; every field resolves to the lookup's  *)
(* header for the first of its candidates, in candidate order, whose       *)
(* normalized form is a key, and to None when no candidate's is.           *)
(***************************************************************************)
C2_FirstCandidateLastHeader ==
    pc = "resolved" =>
        LET keys == header_keys
            keyset == Range(keys)
        IN  /\ DOMAIN col_map = keyset
            /\ \A key \in keyset : col_map[key] = headers[Last(keys, key)]
            /\ \A k \in Fields :
                  LET hits == { i \in DOMAIN candidates[k] : candidate_keys[k][i] \in keyset }
                  IN  IF hits = {} THEN found[k] = None
                      ELSE LET first == CHOOSE i \in hits : \A m \in hits : i <= m
                           IN  found[k] = headers[Last(keys, candidate_keys[k][first])]

\* two headers share the key order_region and the later one is taken, while
\* quantity resolves through its second candidate
C2_Witness ==
    /\ pc = "resolved"
    /\ \E i, j \in DOMAIN headers :
          /\ i < j
          /\ header_keys[i] = header_keys[j]
          /\ found[F_order_region] = headers[j]
    /\ found[F_quantity] = H_quantity

(***************************************************************************)
(* Spelling variants of "Order Region"                                     *)
(***************************************************************************)
W_order == << "o","r","d","e","r" >>
W_region == << "r","e","g","i","o","n" >>

AlnumChars == Range(LowerChars) \cup Range(UpperChars) \cup Range(DigitChars)

\* punctuation or whitespace: neither a letter nor a digit
IsSeparator(c) == c \notin AlnumChars

\* the word w stands in h at position i, in any letter case
WordAt(h, i, w) ==
    /\ i + Len(w) - 1 <= Len(h)
    /\ \A m \in DOMAIN w : LowerChar(h[i + m - 1]) = w[m]

\* h is: chars allowed around, "order", one or more separators, "region",
\* chars allowed around
VariantWith(h, around) ==
    \E i, j \in DOMAIN h :
        /\ WordAt(h, i, W_order)
        /\ j > i + Len(W_order)
        /\ WordAt(h, j, W_region)
        /\ \A m \in (i + Len(W_order))..(j - 1) : IsSeparator(h[m])
        /\ \A m \in 1..(i - 1) : h[m] \in around
        /\ \A m \in (j + Len(W_region))..Len(h) : h[m] \in around

\* punctuation or whitespace between, before or after the words
AnyVariant(h) == VariantWith(h, { c \in Range(h) : IsSeparator(c) })

\* punctuation or whitespace between the words, only whitespace around them
PaddedVariant(h) == VariantWith(h, Whitespace)

(***************************************************************************)
(* C3 as stated: whenever the header list holds a spelling variant of     *)
(* "Order Region" (any case; any punctuation or whitespace between,        *)
(* before or after the words), order_region resolves to such a header.     *)
(***************************************************************************)
C3_AnyVariantResolves ==
    (pc = "resolved" /\ \E j \in DOMAIN headers : AnyVariant(headers[j])) =>
        \E j \in DOMAIN headers : AnyVariant(headers[j]) /\ found[F_order_region] = headers[j]

(***************************************************************************)
(* C3 as amended: whenever the header list holds a header made of the      *)
(* words "order" and "region" in any letter case, with one or more         *)
(* punctuation or whitespace characters between them and nothing but       *)
(* whitespace before or after them, order_region resolves to the last      *)
(* header of that kind in the list.                                        *)
(***************************************************************************)
C3_PaddedVariantResolves ==
    (pc = "resolved" /\ \E j \in DOMAIN headers : PaddedVariant(headers[j])) =>
        LET last == CHOOSE j \in DOMAIN headers :
                        /\ PaddedVariant(headers[j])
                        /\ \A m \in DOMAIN headers : PaddedVariant(headers[m]) => m <= j
        IN  found[F_order_region] = headers[last]

\* the upper-case, double-hyphen, space-padded spelling is the one resolved
C3_Witness ==
    /\ pc = "resolved"
    /\ found[F_order_region] = H_ORDER_REGION_padded
    /\ PaddedVariant(H_ORDER_REGION_padded)

(***************************************************************************)
(* C4: after the filter, the filtered rows are exactly the working rows,   *)
(* in their order, whose region is selected (or no region is selected)     *)
(* and whose shipping mode is selected (or no mode is selected); the       *)
(* selections are subsets of the values observed in the working rows.      *)
(***************************************************************************)
C4_FilterIsConjunction ==
    AfterFilter =>
        /\ filtered = SelectSeq(work, LAMBDA r :
               /\ (sel_regions = {} \/ r.order_region \in sel_regions)
               /\ (sel_shipping = {} \/ r.shipping_mode \in sel_shipping))
        /\ sel_regions = {} =>
               filtered = SelectSeq(work, LAMBDA r :
                   sel_shipping = {} \/ r.shipping_mode \in sel_shipping)

\* no region selected, one of two observed shipping modes selected: of two
\* rows of different regions the one of the selected mode passes
C4_Witness ==
    /\ pc = "filtered"
    /\ sel_regions = {}
    /\ sel_shipping = { "Standard Class" }
    /\ Len(work) = 2
    /\ work[1].order_region # work[2].order_region
    /\ work[1].shipping_mode = "First Class"
    /\ filtered = << work[2] >>

(***************************************************************************)
(* C5: in the delay-by-shipping-mode summary the delayed count of every    *)
(* mode is the number of filtered rows of that mode whose label is -1,     *)
(* and the highlighted worst mode has the largest such count.              *)
(***************************************************************************)
DelayedOfMode(s) ==
    Cardinality({ i \in DOMAIN filtered :
        filtered[i].shipping_mode = s /\ CellEq(filtered[i].label, -1) })

C5_ShipDelayedIsMinusOne ==
    AfterDelay =>
        /\ \A i \in DOMAIN delay_summary_ship :
              delay_summary_ship[i].delay_count = DelayedOfMode(delay_summary_ship[i].key)
        /\ \A i \in DOMAIN worst : \A s \in ShipModes :
              DelayedOfMode(s) <= DelayedOfMode(worst[i].key)

(***************************************************************************)
(* C6: the delayed, on-time and early counts are the numbers of rows whose *)
(* label cell reads -1, 0 and 1; a row whose cell is unparseable, missing  *)
(* or another number counts in none of them, so the three add up to the    *)
(* rows labelled -1, 0 or 1 and to no more than the total row count.       *)
(***************************************************************************)
CellsReading(text) == Cardinality({ i \in DOMAIN rows : rows[i].label = text })

C6_CountsByExactLabel ==
    AfterCounts =>
        /\ kpi.total = Len(rows)
        /\ kpi.delayed = CellsReading(<< "-","1" >>)
        /\ kpi.ontime = CellsReading(<< "0" >>)
        /\ kpi.early = CellsReading(<< "1" >>)
        /\ kpi.delayed + kpi.ontime + kpi.early =
              Cardinality({ i \in DOMAIN work :
                  ~work[i].label.na /\ work[i].label.v \in { -1, 0, 1 } })
        /\ kpi.delayed + kpi.ontime + kpi.early <= kpi.total

\* the labels -1, -1, 0, 1, "bad", missing give 2, 1 and 1 of 6 rows
C6_Witness ==
    /\ pc = "counted"
    /\ [ i \in DOMAIN rows |-> rows[i].label ] = SampleLabels
    /\ kpi = [ total |-> 6, delayed |-> 2, ontime |-> 1, early |-> 1 ]

(***************************************************************************)
(* C7: a group none of whose rows has a label (total count 0) raises       *)
(* nothing: no run ends in a division error; in the shipping-mode, region  *)
(* and route tables such a group is listed with total 0, delayed 0 and a   *)
(* NaN percentage, every other group has a quotient; the tables are        *)
(* sorted, the worst mode is picked, the route table lists every route     *)
(* (NaN percentages last), and a run that ends in an exception ends in     *)
(* one of the coercion or of the filter.                                   *)
(***************************************************************************)
\* the group has rows and none of them has a label
Unlabelled(g) == g # << >> /\ \A i \in DOMAIN g : g[i].label.na

\* every total-0 group of the table has a NaN percentage, every other group
\* a quotient
ZeroTotalsAreNaN(table) ==
    \A i \in DOMAIN table :
        IF table[i].total_count = 0
        THEN table[i].delay_count = 0 /\ table[i].delay_pct = PctNaN
        ELSE table[i].delay_pct.kind = "num"

Listed(table, key) == \E i \in DOMAIN table : table[i].key = key /\ table[i].total_count = 0

C7_ZeroTotalNeverFaults ==
    /\ error # "ZeroDivisionError"
    /\ pc = "crashed" => error \in { "TypeError", "AttributeError" }
    /\ pc = "delay_done" =>
          /\ ZeroTotalsAreNaN(delay_summary_ship)
          /\ ZeroTotalsAreNaN(delay_summary_region)
          /\ \A s \in ShipModes :
                Unlabelled(SelectSeq(filtered, LAMBDA r : r.shipping_mode = s)) => Listed(delay_summary_ship, s)
          /\ \A g \in Regions :
                Unlabelled(SelectSeq(filtered, LAMBDA r : r.order_region = g)) => Listed(delay_summary_region, g)
          /\ \A i, j \in DOMAIN delay_summary_ship :
                i < j => delay_summary_ship[i].delay_count >= delay_summary_ship[j].delay_count
          /\ filtered # << >> => Len(worst) = 1
    /\ pc = "done" =>
          /\ ZeroTotalsAreNaN(top10_routes)
          /\ \A k \in Range(RouteOrder) :
                Unlabelled(SelectSeq(filtered, LAMBDA r : route(r) = k)) => Listed(top10_routes, k)
          /\ { top10_routes[i].key : i \in DOMAIN top10_routes } =
                { route(filtered[i]) : i \in DOMAIN filtered }
          /\ \A i, j \in DOMAIN top10_routes :
                (i < j /\ top10_routes[i].delay_pct.kind = "nan") =>
                    top10_routes[j].delay_pct.kind = "nan"

\* the run is over with a total-0 shipping mode, a total-0 region and a
\* total-0 route behind a route that has a percentage
C7_Witness ==
    /\ pc = "done"
    /\ \E i \in DOMAIN delay_summary_ship : delay_summary_ship[i].total_count = 0
    /\ \E i \in DOMAIN delay_summary_region : delay_summary_region[i].total_count = 0
    /\ Len(top10_routes) = 2
    /\ top10_routes[1].delay_pct.kind = "num"
    /\ top10_routes[2].total_count = 0

(***************************************************************************)
(* C8: the routes view stops the run if and only if a column it requires   *)
(* is absent from the loaded headers under the normalization rule: order   *)
(* city, order country, customer city, customer country, or the label.     *)
(***************************************************************************)
HeaderPresent(name) == \E j \in DOMAIN headers : norm(headers[j]) = norm(name)

RouteColumnsPresent ==
    /\ HeaderPresent(H_OrderCity)
    /\ HeaderPresent(H_OrderCountry)
    /\ HeaderPresent(H_CustomerCity)
    /\ HeaderPresent(H_CustomerCountry)
    /\ found[F_label] # None

C8_RoutesStopOnlyIfAbsent ==
    pc \in { "routes_stopped", "done" } =>
        (pc = "routes_stopped" <=> ~RouteColumnsPresent)

(***************************************************************************)
(* C9: the top-level counts are those of the filtered rows: total,         *)
(* delayed, on-time and early count the rows that pass the filter.         *)
(***************************************************************************)
C9_CountsOfFilteredRows ==
    AfterFilter =>
        /\ kpi.total = Len(filtered)
        /\ kpi.delayed = CountLabel(filtered, -1)
        /\ kpi.ontime = CountLabel(filtered, 0)
        /\ kpi.early = CountLabel(filtered, 1)

(***************************************************************************)
(* C10: with pairwise distinct headers and the critical fields resolved,   *)
(* distinct fields resolve to distinct headers, the renamed frame has at   *)
(* most one column under each of the ten internal names, and the run does  *)
(* not end in an exception of the coercion or the filter.                  *)
(***************************************************************************)
C10_OneColumnPerInternalName ==
    (Distinct(headers) /\ AfterRename) =>
        /\ \A k1, k2 \in Fields :
              (k1 # k2 /\ found[k1] # None) => found[k1] # found[k2]
        /\ \A k \in Fields : Occurrences(columns, k) <= 1
        /\ error \notin { "TypeError", "AttributeError" }


=============================================================================
